---- MODULE Spec2Model ----
(***************************************************************************)
(* Model of the XAURON scanner bot (src/bot.py): the candle pipeline       *)
(* (fetch_candles_twelve, atr, vortex, decide_signal, build_trade_plan,    *)
(* analyze_once), the per-chat configuration commands, the manual on_text  *)
(* path and the periodic autoscan_job with its LAST_STATE dedup store.     *)
(*                                                                         *)
(* Numbers.  A Python float is modelled as a rational <<n, d>> (d > 0, in  *)
(* lowest terms) and every arithmetic operation rounds its exact result to *)
(* FloatPrecision significant bits, round-half-to-even, as IEEE-754 does   *)
(* with 53 bits.  Prices are counted in units of 1e-9, so that the literal *)
(* 1e-9 of vortex() is the rational 1.                                     *)
(***************************************************************************)
EXTENDS Integers, Sequences, FiniteSets, TLC

VARIABLES
    MIN_STRENGTH,          \* src/bot.py:37, read from the environment at import
    ATR_SL_MULT,           \* src/bot.py:32
    ATR_TP1_MULT,          \* src/bot.py:33
    ATR_TP2_MULT,          \* src/bot.py:34
    ATR_TP3_MULT,          \* src/bot.py:35
    AUTO_TFS,              \* src/bot.py:26, the parsed default timeframes
    DEFAULT_SYMBOLS,       \* src/bot.py:25, the parsed default symbols
    call,                  \* the pure function last applied, with its arguments
    ret,                   \* what that application returned
    LAST_STATE,            \* src/bot.py:40, (chat, symbol, tf) -> signal
    AUTO_ENABLED,          \* src/bot.py:43, chat -> bool, in insertion order
    AUTO_TFS_BY_CHAT,      \* src/bot.py:44, chat -> list of timeframes
    AUTO_SYMBOLS_BY_CHAT,  \* src/bot.py:45, chat -> list of raw symbols
    jobs,                  \* the runs of autoscan_job, one record a slot
    manual,                \* the on_text request in progress
    reply,                 \* the last reply a handler sent
    last,                  \* the latest evaluation of autoscan_job
    log,                   \* the evaluations of autoscan_job, in order (SpecKey)
    ticks,                 \* how many runs of autoscan_job have started
    updates                \* how many updates the handlers have taken

envVars == <<MIN_STRENGTH, ATR_SL_MULT, ATR_TP1_MULT, ATR_TP2_MULT, ATR_TP3_MULT,
             AUTO_TFS, DEFAULT_SYMBOLS>>
pureVars == <<call, ret>>
configVars == <<AUTO_ENABLED, AUTO_TFS_BY_CHAT, AUTO_SYMBOLS_BY_CHAT>>
botVars == <<LAST_STATE, configVars, jobs, manual, reply, last, log, ticks, updates>>

----------------------------------------------------------------------------
(* Bounds of the model.                                                    *)

FloatPrecision == 4        \* significant bits of a float (53 in CPython)
FloatExpRange == 8         \* binary exponents run over -FloatExpRange..FloatExpRange
MaxCandles == 3            \* candle sequences of the pure checks have 0..MaxCandles candles
MaxWindow == 3             \* window lengths of the pure checks are 1..MaxWindow
NumChats == 2              \* chats are 1..NumChats
JobSlots == 2              \* records kept for runs of autoscan_job
MaxTicks == 2              \* runs of autoscan_job in a behaviour of Spec
MaxUpdates == 2            \* updates handled in a behaviour of Spec
MaxKeyTicks == 6           \* runs of autoscan_job in a behaviour of SpecKey
MaxOverlapTicks == 3       \* ticks in a behaviour of SpecOverlap
MaxRows == 3               \* rows of a response of the fetch checks
MaxKeyUpdates == 1         \* updates handled in a behaviour of SpecKey
MaxToggleTicks == 3        \* ticks in a behaviour of SpecToggle
MaxToggleUpdates == 3      \* /autoscan commands in a behaviour of SpecToggle

----------------------------------------------------------------------------
(* Rationals.                                                              *)

Abs(x) == IF x < 0 THEN -x ELSE x

RECURSIVE GCD(_, _)
GCD(a, b) == IF b = 0 THEN a ELSE GCD(b, a % b)

Rat(n, d) ==
    LET s == IF d < 0 THEN -1 ELSE 1
        g == GCD(Abs(n), Abs(d))
    IN  IF n = 0 THEN <<0, 1>> ELSE <<(s * n) \div g, (s * d) \div g>>

RInt(k) == <<k, 1>>
RNeg(a) == <<-a[1], a[2]>>
RAbs(a) == <<Abs(a[1]), a[2]>>
RAdd(a, b) == Rat(a[1] * b[2] + b[1] * a[2], a[2] * b[2])
RSub(a, b) == Rat(a[1] * b[2] - b[1] * a[2], a[2] * b[2])
RMul(a, b) == Rat(a[1] * b[1], a[2] * b[2])
RDiv(a, b) == Rat(a[1] * b[2], a[2] * b[1])
RLt(a, b) == a[1] * b[2] < b[1] * a[2]
RLe(a, b) == a[1] * b[2] <= b[1] * a[2]
RMax(a, b) == IF RLt(a, b) THEN b ELSE a

TwoTo(e) == IF e >= 0 THEN <<2 ^ e, 1>> ELSE <<1, 2 ^ (-e)>>

----------------------------------------------------------------------------
(* Floats: the rounding of an exact result to FloatPrecision bits.         *)

\* The binary exponent of a positive rational n/d: the largest e with
\* 2^e <= n/d, kept within -FloatExpRange..FloatExpRange (below the range
\* the grid stays that of the smallest exponent, as for subnormal numbers).
RECURSIVE ExpUp(_, _, _)
ExpUp(n, d, e) ==
    IF e < FloatExpRange /\ 2 * d <= n THEN ExpUp(n, 2 * d, e + 1) ELSE e

RECURSIVE ExpDown(_, _, _)
ExpDown(n, d, e) ==
    IF n >= d \/ e = -FloatExpRange THEN e ELSE ExpDown(2 * n, d, e - 1)

ExpOf(a) ==
    IF a[1] >= a[2] THEN ExpUp(a[1], a[2], 0) ELSE ExpDown(2 * a[1], a[2], -1)

\* The integer nearest to n/d (n >= 0, d > 0), a tie going to the even one.
RoundHalfEven(n, d) ==
    LET k == n \div d
        r == n % d
    IN  IF 2 * r < d THEN k
        ELSE IF 2 * r > d THEN k + 1
        ELSE IF k % 2 = 0 THEN k ELSE k + 1

\* F at the value of v: v is evaluated once, as the argument of a call is.
Eval(v, F(_)) == CHOOSE out \in {F(x) : x \in {v}} : TRUE

Round(q) ==
    IF q[1] = 0 THEN <<0, 1>>
    ELSE LET a == RAbs(q)
             step == TwoTo(ExpOf(a) - FloatPrecision + 1)
             r == RDiv(a, step)
             v == RMul(RInt(RoundHalfEven(r[1], r[2])), step)
         IN  IF q[1] < 0 THEN RNeg(v) ELSE v

Fl(q) == Eval(q, Round)

FAdd(a, b) == Eval(<<a, b>>, LAMBDA p : Fl(RAdd(p[1], p[2])))
FSub(a, b) == Eval(<<a, b>>, LAMBDA p : Fl(RSub(p[1], p[2])))
FMul(a, b) == Eval(<<a, b>>, LAMBDA p : Fl(RMul(p[1], p[2])))
FDiv(a, b) == Eval(<<a, b>>, LAMBDA p : Fl(RDiv(p[1], p[2])))

\* Python's sum() over a list of floats, from 0.
RECURSIVE FSum(_)
FSum(s) == IF s = <<>> THEN <<0, 1>>
           ELSE FAdd(FSum(SubSeq(s, 1, Len(s) - 1)), s[Len(s)])

----------------------------------------------------------------------------
(* Results of a Python call: a returned value or a raised exception.       *)

Ok(v) == [ok |-> TRUE, val |-> v]
Raise(e) == [ok |-> FALSE, exc |-> e]

\* seq[-n:] for n >= 0: the last n elements, the whole list when n = 0
\* (-0 is 0) or when n exceeds the length.
LastSlice(seq, n) ==
    IF n = 0 \/ n >= Len(seq) THEN seq
    ELSE SubSeq(seq, Len(seq) - n + 1, Len(seq))

----------------------------------------------------------------------------
(* Indicators, src/bot.py:137-173.                                         *)

_true_range(curr, prev_close) ==
    RMax(RMax(FSub(curr.h, curr.l), RAbs(FSub(curr.h, prev_close))),
         RAbs(FSub(curr.l, prev_close)))

\* atr() with the length guard weakened by one (len(candles) < length).
atr_short_guard(candles, length) ==
    IF Len(candles) < length
    THEN Raise("Poucos candles para ATR.")
    ELSE LET trs == [i \in 1..(Len(candles) - 1) |->
                        _true_range(candles[i + 1], candles[i].c)]
             window == LastSlice(trs, length)
         IN  IF Len(window) = 0 THEN Raise("ZeroDivisionError")
             ELSE Ok(FDiv(FSum(window), RInt(Len(window))))

atr(candles, length) ==
    IF Len(candles) < length + 1
    THEN Raise("Poucos candles para ATR.")
    ELSE LET trs == [i \in 1..(Len(candles) - 1) |->
                        _true_range(candles[i + 1], candles[i].c)]
             window == LastSlice(trs, length)
         IN  IF Len(window) = 0 THEN Raise("ZeroDivisionError")
             ELSE Ok(FDiv(FSum(window), RInt(Len(window))))

\* The literal 1e-9 of vortex(), in the price unit of the model.
SumTrEpsilon == <<1, 1>>

vortex(candles, length) ==
    IF Len(candles) < length + 1
    THEN Raise("Poucos candles para Vortex.")
    ELSE LET steps == 1..(Len(candles) - 1)
             vm_plus == [i \in steps |-> RAbs(FSub(candles[i + 1].h, candles[i].l))]
             vm_minus == [i \in steps |-> RAbs(FSub(candles[i + 1].l, candles[i].h))]
             tr == [i \in steps |-> _true_range(candles[i + 1], candles[i].c)]
             vm_plus_w == LastSlice(vm_plus, length)
             vm_minus_w == LastSlice(vm_minus, length)
             tr_w == LastSlice(tr, length)
             sum_tr == IF FSum(tr_w) # <<0, 1>> THEN FSum(tr_w) ELSE SumTrEpsilon
         IN  Ok(<<FDiv(FSum(vm_plus_w), sum_tr), FDiv(FSum(vm_minus_w), sum_tr)>>)

----------------------------------------------------------------------------
(* Signal and plan, src/bot.py:177-196.                                    *)

\* decide_signal() with the tie rounded to WAIT (strength <= MIN_STRENGTH).
decide_signal_tie_wait(vi_p, vi_m) ==
    LET strength == RAbs(FSub(vi_p, vi_m))
    IN  IF RLe(strength, MIN_STRENGTH) THEN <<"WAIT", strength>>
        ELSE <<IF RLt(vi_m, vi_p) THEN "BUY" ELSE "SELL", strength>>

\* decide_signal() with the comparison of the direction made non-strict.
decide_signal_buy_on_tie(vi_p, vi_m) ==
    LET strength == RAbs(FSub(vi_p, vi_m))
    IN  IF RLt(strength, MIN_STRENGTH) THEN <<"WAIT", strength>>
        ELSE <<IF RLe(vi_m, vi_p) THEN "BUY" ELSE "SELL", strength>>

decide_signal(vi_p, vi_m) ==
    LET strength == RAbs(FSub(vi_p, vi_m))
    IN  IF RLt(strength, MIN_STRENGTH) THEN <<"WAIT", strength>>
        ELSE <<IF RLt(vi_m, vi_p) THEN "BUY" ELSE "SELL", strength>>

\* build_trade_plan() with the stop placed on the side of the targets.
build_trade_plan_stop_side(last_price, direction, atr_val) ==
    LET entry == last_price
    IN  IF direction = "BUY"
        THEN [entry |-> entry,
              sl  |-> FAdd(entry, FMul(atr_val, ATR_SL_MULT)),
              tp1 |-> FAdd(entry, FMul(atr_val, ATR_TP1_MULT)),
              tp2 |-> FAdd(entry, FMul(atr_val, ATR_TP2_MULT)),
              tp3 |-> FAdd(entry, FMul(atr_val, ATR_TP3_MULT))]
        ELSE [entry |-> entry,
              sl  |-> FSub(entry, FMul(atr_val, ATR_SL_MULT)),
              tp1 |-> FSub(entry, FMul(atr_val, ATR_TP1_MULT)),
              tp2 |-> FSub(entry, FMul(atr_val, ATR_TP2_MULT)),
              tp3 |-> FSub(entry, FMul(atr_val, ATR_TP3_MULT))]

build_trade_plan(last_price, direction, atr_val) ==
    LET entry == last_price
    IN  IF direction = "BUY"
        THEN [entry |-> entry,
              sl  |-> FSub(entry, FMul(atr_val, ATR_SL_MULT)),
              tp1 |-> FAdd(entry, FMul(atr_val, ATR_TP1_MULT)),
              tp2 |-> FAdd(entry, FMul(atr_val, ATR_TP2_MULT)),
              tp3 |-> FAdd(entry, FMul(atr_val, ATR_TP3_MULT))]
        ELSE [entry |-> entry,
              sl  |-> FAdd(entry, FMul(atr_val, ATR_SL_MULT)),
              tp1 |-> FSub(entry, FMul(atr_val, ATR_TP1_MULT)),
              tp2 |-> FSub(entry, FMul(atr_val, ATR_TP2_MULT)),
              tp3 |-> FSub(entry, FMul(atr_val, ATR_TP3_MULT))]

----------------------------------------------------------------------------
(* The environment of the process, src/bot.py:25-37.                       *)

\* VI_LENGTH and ATR_LENGTH are read from the environment (default 14); the
\* model runs the configuration VI_LENGTH=2, ATR_LENGTH=2.
VI_LENGTH == 2
ATR_LENGTH == 2

----------------------------------------------------------------------------
(* Strings.  A Python string is a tuple of one-character strings, so that  *)
(* strip, upper, lower, replace and the pattern matches are computed.      *)

LowerLetters == <<"a", "b", "c", "d", "e", "f", "g", "h", "i", "j", "k", "l", "m",
                  "n", "o", "p", "q", "r", "s", "t", "u", "v", "w", "x", "y", "z">>
UpperLetters == <<"A", "B", "C", "D", "E", "F", "G", "H", "I", "J", "K", "L", "M",
                  "N", "O", "P", "Q", "R", "S", "T", "U", "V", "W", "X", "Y", "Z">>
Digits == {"0", "1", "2", "3", "4", "5", "6", "7", "8", "9"}

IsUpperLetter(ch) == \E i \in 1..26 : UpperLetters[i] = ch

\* str.upper(), a character at a time.
UpperChar(ch) ==
    IF \E i \in 1..26 : LowerLetters[i] = ch
    THEN UpperLetters[CHOOSE i \in 1..26 : LowerLetters[i] = ch]
    ELSE ch

\* str.lower(), a character at a time.
LowerChar(ch) ==
    IF \E i \in 1..26 : UpperLetters[i] = ch
    THEN LowerLetters[CHOOSE i \in 1..26 : UpperLetters[i] = ch]
    ELSE ch

UpperStr(str) == [i \in DOMAIN str |-> UpperChar(str[i])]
LowerStr(str) == [i \in DOMAIN str |-> LowerChar(str[i])]

\* str.strip(): the blanks at both ends removed.
RECURSIVE StripStr(_)
StripStr(str) ==
    IF str = <<>> THEN str
    ELSE IF Head(str) = " " THEN StripStr(Tail(str))
    ELSE IF str[Len(str)] = " " THEN StripStr(SubSeq(str, 1, Len(str) - 1))
    ELSE str

\* src/bot.py:58-65
_normalize_symbol(raw) ==
    LET keep(ch) == ch # "#" /\ ch # "$"
        str == SelectSeq(UpperStr(StripStr(raw)), keep)
    IN  IF \E i \in DOMAIN str : str[i] = "/" THEN str
        ELSE IF Len(str) = 6 /\ \A i \in DOMAIN str : IsUpperLetter(str[i])
        THEN SubSeq(str, 1, 3) \o <<"/">> \o SubSeq(str, 4, 6)
        ELSE str

\* The pattern ^[A-Z0-9._-]{3,15}(\/[A-Z0-9._-]{3,15})?$ of src/bot.py:81.
SymbolChar(ch) == IsUpperLetter(ch) \/ ch \in Digits \/ ch \in {".", "_", "-"}
SymbolPart(str) == Len(str) \in 3..15 /\ \A i \in DOMAIN str : SymbolChar(str[i])
MatchesSymbol(sym) ==
    LET slashes == {i \in DOMAIN sym : sym[i] = "/"}
    IN  IF slashes = {} THEN SymbolPart(sym)
        ELSE /\ Cardinality(slashes) = 1
             /\ LET k == CHOOSE i \in slashes : TRUE
                IN  /\ SymbolPart(SubSeq(sym, 1, k - 1))
                    /\ SymbolPart(SubSeq(sym, k + 1, Len(sym)))

\* The timeframe strings of the model.
TF_1MIN == <<"1", "m", "i", "n">>
TF_5MIN == <<"5", "m", "i", "n">>
TF_M5 == <<"M", "5">>
TF_m5 == <<"m", "5">>

\* m_map of src/bot.py:87, as its (key, value) pairs.
m_map ==
    {<<<<"M", "1">>, TF_1MIN>>, <<TF_M5, TF_5MIN>>,
     <<<<"M", "1", "5">>, <<"1", "5", "m", "i", "n">>>>,
     <<<<"M", "3", "0">>, <<"3", "0", "m", "i", "n">>>>,
     <<<<"H", "1">>, <<"1", "h">>>>, <<<<"H", "4">>, <<"4", "h">>>>,
     <<<<"D", "1">>, <<"1", "d", "a", "y">>>>}

\* dict.get(key, default) on those pairs.
MapGet(pairs, key, default) ==
    IF \E pr \in pairs : pr[1] = key
    THEN (CHOOSE pr \in pairs : pr[1] = key)[2]
    ELSE default

\* src/bot.py:68-90.  The text is the list of its blank-separated parts: a
\* symbol and, when there is one, a timeframe.  None is modelled as <<>>.
_extract_symbol_and_interval(text) ==
    IF text = <<>> THEN <<<<>>, <<>>>>
    ELSE LET first == StripStr(text[1])
             sym == _normalize_symbol(first)
         IN  IF first # <<>> /\ Head(first) = "/" THEN <<<<>>, <<>>>>
             ELSE IF ~MatchesSymbol(sym) THEN <<<<>>, <<>>>>
             ELSE IF Len(text) >= 2
             THEN LET raw == UpperStr(StripStr(text[2]))
                  IN  <<sym, MapGet(m_map, raw, LowerStr(StripStr(text[2])))>>
             ELSE <<sym, <<>>>>

\* src/bot.py:93-94.  The argument is the list str.split(",") gives: the
\* items that are not blank are kept, stripped.
_parse_csv_list(items) ==
    LET stripped == [i \in DOMAIN items |-> StripStr(items[i])]
        nonblank(x) == x # <<>>
    IN  SelectSeq(stripped, nonblank)

----------------------------------------------------------------------------
(* The candle source, src/bot.py:98-133.  A response of the provider is    *)
(* an HTTP failure or a JSON document; its rows come newest first.         *)

TWELVE_API_KEY == "key"

IsNumber(v) == v # <<>>

RowFields == {"datetime", "open", "high", "low", "close"}

fetch_candles_twelve(resp) ==
    IF TWELVE_API_KEY = "" THEN Raise("RuntimeError")
    ELSE IF resp.kind = "http" THEN Raise("HTTPError")
    ELSE IF resp.status = "error" THEN Raise("RuntimeError")
    ELSE IF resp.values = <<>> THEN Raise("RuntimeError")
    ELSE LET n == Len(resp.values)
             rows == [i \in 1..n |-> resp.values[n + 1 - i]]
         IN  IF \E i \in 1..n : ~(RowFields \subseteq DOMAIN rows[i])
             THEN Raise("KeyError")
             ELSE IF \E i \in 1..n : \E f \in RowFields \ {"datetime"} :
                         ~IsNumber(rows[i][f])
             THEN Raise("ValueError")
             ELSE Ok([i \in 1..n |->
                         [t |-> rows[i].datetime, o |-> Fl(rows[i].open),
                          h |-> Fl(rows[i].high), l |-> Fl(rows[i].low),
                          c |-> Fl(rows[i].close)]])

\* Responses of the provider.
Row(time, high, low, close) ==
    [datetime |-> time, open |-> RInt(close), high |-> RInt(high),
     low |-> RInt(low), close |-> RInt(close)]
JsonOk(values) == [kind |-> "json", status |-> "ok", values |-> values]

RespHttpError == [kind |-> "http"]
RespStatusError == [kind |-> "json", status |-> "error", values |-> <<>>]
RespEmpty == JsonOk(<<>>)
RespMissingField == JsonOk(<<Row(3, 4, 3, 4), [datetime |-> 2], Row(1, 2, 1, 2)>>)
RespNonNumeric ==
    JsonOk(<<Row(3, 4, 3, 4), [Row(2, 3, 2, 3) EXCEPT !.close = <<>>], Row(1, 2, 1, 2)>>)
RespTooShort == JsonOk(<<Row(2, 3, 2, 3), Row(1, 2, 1, 2)>>)
RespRising == JsonOk(<<Row(3, 4, 3, 4), Row(2, 3, 2, 3), Row(1, 2, 1, 2)>>)
RespFalling == JsonOk(<<Row(3, 2, 1, 1), Row(2, 3, 2, 2), Row(1, 4, 3, 3)>>)
RespFlat == JsonOk(<<Row(3, 2, 1, 1), Row(2, 2, 1, 1), Row(1, 2, 1, 1)>>)

Responses == {RespHttpError, RespStatusError, RespEmpty, RespMissingField,
              RespNonNumeric, RespTooShort, RespRising, RespFalling, RespFlat}

\* The responses the runs of the scanner receive: its except clause
\* (src/bot.py:355) tells no exception from another, so one failure of the
\* request and one of the indicators stand for the failures.
ScanResponses == {RespHttpError, RespTooShort, RespRising, RespFalling, RespFlat}

\* src/bot.py:216-226, on the response its fetch receives.  An exception of
\* a call ends analyze_once with that exception.
analyze_once(resp) ==
    Eval(fetch_candles_twelve(resp), LAMBDA fetched :
      IF ~fetched.ok THEN fetched ELSE
      Eval(vortex(fetched.val, VI_LENGTH), LAMBDA vi :
        IF ~vi.ok THEN vi ELSE
        Eval(atr(fetched.val, ATR_LENGTH), LAMBDA atr_val :
          IF ~atr_val.ok THEN atr_val ELSE
          Eval(decide_signal(vi.val[1], vi.val[2]), LAMBDA decided :
            LET candles == fetched.val
                vi_p == vi.val[1]
                vi_m == vi.val[2]
                last_price == candles[Len(candles)].c
                direction == IF RLt(vi_m, vi_p) THEN "BUY" ELSE "SELL"
            IN  Ok([signal |-> decided[1],
                    plan |-> build_trade_plan(last_price, direction, atr_val.val),
                    strength |-> decided[2], vi_p |-> vi_p, vi_m |-> vi_m,
                    atr_val |-> atr_val.val])))))

----------------------------------------------------------------------------
(* The symbols and timeframes of the model, and the default environment:   *)
(* AUTO_TFS="5min" and DEFAULT_SYMBOLS="XAUUSD" with the defaults of the   *)
(* multipliers and of the threshold.                                       *)

XAUUSD == <<"X", "A", "U", "U", "S", "D">>
XAU_USD == <<"X", "A", "U", "/", "U", "S", "D">>
EURUSD == <<"E", "U", "R", "U", "S", "D">>

DefaultEnv ==
    /\ MIN_STRENGTH = Fl(<<12, 100>>)
    /\ ATR_SL_MULT = <<3, 2>>
    /\ ATR_TP1_MULT = <<1, 1>>
    /\ ATR_TP2_MULT = <<2, 1>>
    /\ ATR_TP3_MULT = <<3, 1>>
    /\ AUTO_TFS = _parse_csv_list(<<TF_5MIN>>)
    /\ DEFAULT_SYMBOLS = _parse_csv_list(<<XAUUSD>>)

----------------------------------------------------------------------------
(* Dictionaries.                                                           *)

\* A dict that is never iterated: a function on the keys it holds.
Get(dict, key, default) == IF key \in DOMAIN dict THEN dict[key] ELSE default
Put(dict, key, value) ==
    [k \in DOMAIN dict \cup {key} |-> IF k = key THEN value ELSE dict[k]]
SetDefault(dict, key, value) == IF key \in DOMAIN dict THEN dict ELSE Put(dict, key, value)

\* AUTO_ENABLED is iterated: the list of its (key, value) items, in
\* insertion order.
ItemsHas(items, key) == \E i \in DOMAIN items : items[i][1] = key
ItemsPut(items, key, value) ==
    IF ItemsHas(items, key)
    THEN [i \in DOMAIN items |-> IF items[i][1] = key THEN <<key, value>> ELSE items[i]]
    ELSE Append(items, <<key, value>>)
ItemsSetDefault(items, key, value) ==
    IF ItemsHas(items, key) THEN items ELSE Append(items, <<key, value>>)

----------------------------------------------------------------------------
(* The state of the bot.                                                   *)

Chats == 1..NumChats
JobIds == 1..JobSlots

Idle == [pc |-> "idle"]

\* A run of autoscan_job: its control point, the items of AUTO_ENABLED it
\* iterates, the chat it is at (ci), the lists it read for that chat, the
\* symbol and timeframe it is at (si, ti) and the signal it is delivering;
\* and, as a record of the run, what it read for each chat it entered, the
\* keys it evaluated and how many errors its except clause caught.
NoJob == [pc |-> "idle", tick |-> 0, items |-> <<>>, ci |-> 0, tfs |-> <<>>,
          syms |-> <<>>, si |-> 0, ti |-> 0, sending |-> "NONE", read |-> <<>>,
          seen |-> <<>>, errors |-> 0]

NoEval == [tick |-> 0]

InitBot ==
    /\ LAST_STATE = <<>>
    /\ AUTO_ENABLED = <<>>
    /\ AUTO_TFS_BY_CHAT = <<>>
    /\ AUTO_SYMBOLS_BY_CHAT = <<>>
    /\ jobs = [j \in JobIds |-> NoJob]
    /\ manual = Idle
    /\ reply = [kind |-> "none"]
    /\ last = NoEval
    /\ log = <<>>
    /\ ticks = 0
    /\ updates = 0

Running(job) == job.pc \in {"fetch", "send"}

----------------------------------------------------------------------------
(* Commands, src/bot.py:230-292.  The handlers run one update at a time    *)
(* (the Application is built with its defaults, src/bot.py:360), so no     *)
(* command starts while on_text waits for its candles.                     *)

HandlerFree(maxUpdates) == manual.pc = "idle" /\ updates < maxUpdates

start(chat_id, maxUpdates) ==
    /\ HandlerFree(maxUpdates)
    /\ AUTO_ENABLED' = ItemsSetDefault(AUTO_ENABLED, chat_id, FALSE)
    /\ AUTO_TFS_BY_CHAT' = SetDefault(AUTO_TFS_BY_CHAT, chat_id, AUTO_TFS)
    /\ AUTO_SYMBOLS_BY_CHAT' = SetDefault(AUTO_SYMBOLS_BY_CHAT, chat_id, DEFAULT_SYMBOLS)
    /\ reply' = [kind |-> "start", chat |-> chat_id]
    /\ updates' = updates + 1
    /\ UNCHANGED <<envVars, pureVars, LAST_STATE, jobs, manual, last, log, ticks>>

help_cmd(chat_id, maxUpdates) ==
    /\ HandlerFree(maxUpdates)
    /\ reply' = [kind |-> "help", chat |-> chat_id]
    /\ updates' = updates + 1
    /\ UNCHANGED <<envVars, pureVars, LAST_STATE, configVars, jobs, manual, last, log, ticks>>

\* autoscan() forgetting, when it turns the scanner on, the states stored for
\* the subscriber's keys.
autoscan_resets(chat_id, args, maxUpdates) ==
    /\ HandlerFree(maxUpdates)
    /\ LET arg == IF args # <<>> THEN LowerStr(args[1]) ELSE <<>>
       IN  IF arg \notin {<<"o", "n">>, <<"o", "f", "f">>}
           THEN /\ reply' = [kind |-> "usage", chat |-> chat_id]
                /\ UNCHANGED <<AUTO_ENABLED, LAST_STATE>>
           ELSE /\ AUTO_ENABLED' = ItemsPut(AUTO_ENABLED, chat_id, arg = <<"o", "n">>)
                /\ LAST_STATE' = IF arg = <<"o", "n">>
                                 THEN [k \in {k \in DOMAIN LAST_STATE : k[1] # chat_id}
                                          |-> LAST_STATE[k]]
                                 ELSE LAST_STATE
                /\ reply' = [kind |-> "autoscan", chat |-> chat_id, arg |-> arg]
    /\ updates' = updates + 1
    /\ UNCHANGED <<envVars, pureVars, AUTO_TFS_BY_CHAT,
                   AUTO_SYMBOLS_BY_CHAT, jobs, manual, last, log, ticks>>

\* args is context.args: the words after the command.
autoscan(chat_id, args, maxUpdates) ==
    /\ HandlerFree(maxUpdates)
    /\ LET arg == IF args # <<>> THEN LowerStr(args[1]) ELSE <<>>
       IN  IF arg \notin {<<"o", "n">>, <<"o", "f", "f">>}
           THEN /\ reply' = [kind |-> "usage", chat |-> chat_id]
                /\ UNCHANGED AUTO_ENABLED
           ELSE /\ AUTO_ENABLED' = ItemsPut(AUTO_ENABLED, chat_id, arg = <<"o", "n">>)
                /\ reply' = [kind |-> "autoscan", chat |-> chat_id, arg |-> arg]
    /\ updates' = updates + 1
    /\ UNCHANGED <<envVars, pureVars, LAST_STATE, AUTO_TFS_BY_CHAT,
                   AUTO_SYMBOLS_BY_CHAT, jobs, manual, last, log, ticks>>

\* settf() writing the new timeframes into the list object a run may be
\* iterating (AUTO_TFS_BY_CHAT[chat_id][:] = tfs).
settf_in_place(chat_id, raw, maxUpdates) ==
    /\ HandlerFree(maxUpdates)
    /\ IF raw = <<<<>>>>
       THEN /\ reply' = [kind |-> "usage", chat |-> chat_id]
            /\ UNCHANGED <<AUTO_TFS_BY_CHAT, jobs>>
       ELSE /\ AUTO_TFS_BY_CHAT' = Put(AUTO_TFS_BY_CHAT, chat_id, _parse_csv_list(raw))
            /\ jobs' = [j \in JobIds |->
                          IF Running(jobs[j]) /\ jobs[j].items[jobs[j].ci][1] = chat_id
                          THEN [jobs[j] EXCEPT !.tfs = _parse_csv_list(raw)]
                          ELSE jobs[j]]
            /\ reply' = [kind |-> "settf", chat |-> chat_id]
    /\ updates' = updates + 1
    /\ UNCHANGED <<envVars, pureVars, LAST_STATE, AUTO_ENABLED,
                   AUTO_SYMBOLS_BY_CHAT, manual, last, log, ticks>>

\* raw is the argument text as str.split(",") cuts it: <<<<>>>> is no text.
settf(chat_id, raw, maxUpdates) ==
    /\ HandlerFree(maxUpdates)
    /\ IF raw = <<<<>>>>
       THEN /\ reply' = [kind |-> "usage", chat |-> chat_id]
            /\ UNCHANGED AUTO_TFS_BY_CHAT
       ELSE /\ AUTO_TFS_BY_CHAT' = Put(AUTO_TFS_BY_CHAT, chat_id, _parse_csv_list(raw))
            /\ reply' = [kind |-> "settf", chat |-> chat_id]
    /\ updates' = updates + 1
    /\ UNCHANGED <<envVars, pureVars, LAST_STATE, AUTO_ENABLED,
                   AUTO_SYMBOLS_BY_CHAT, jobs, manual, last, log, ticks>>

\* setsymbols() dropping the states stored for the subscriber, so that the
\* new instruments start from nothing.
setsymbols_clears(chat_id, raw, maxUpdates) ==
    /\ HandlerFree(maxUpdates)
    /\ IF raw = <<<<>>>>
       THEN /\ reply' = [kind |-> "usage", chat |-> chat_id]
            /\ UNCHANGED <<AUTO_SYMBOLS_BY_CHAT, LAST_STATE>>
       ELSE /\ AUTO_SYMBOLS_BY_CHAT' =
                   Put(AUTO_SYMBOLS_BY_CHAT, chat_id, _parse_csv_list(raw))
            /\ LAST_STATE' = [key \in {k \in DOMAIN LAST_STATE : k[1] # chat_id} |->
                                 LAST_STATE[key]]
            /\ reply' = [kind |-> "setsymbols", chat |-> chat_id]
    /\ updates' = updates + 1
    /\ UNCHANGED <<envVars, pureVars, AUTO_ENABLED,
                   AUTO_TFS_BY_CHAT, jobs, manual, last, log, ticks>>

\* raw is the argument text as str.split(",") cuts it: <<<<>>>> is no text.
setsymbols(chat_id, raw, maxUpdates) ==
    /\ HandlerFree(maxUpdates)
    /\ IF raw = <<<<>>>>
       THEN /\ reply' = [kind |-> "usage", chat |-> chat_id]
            /\ UNCHANGED AUTO_SYMBOLS_BY_CHAT
       ELSE /\ AUTO_SYMBOLS_BY_CHAT' =
                   Put(AUTO_SYMBOLS_BY_CHAT, chat_id, _parse_csv_list(raw))
            /\ reply' = [kind |-> "setsymbols", chat |-> chat_id]
    /\ updates' = updates + 1
    /\ UNCHANGED <<envVars, pureVars, LAST_STATE, AUTO_ENABLED,
                   AUTO_TFS_BY_CHAT, jobs, manual, last, log, ticks>>

----------------------------------------------------------------------------
(* The manual request, src/bot.py:295-321.                                 *)

\* src/bot.py:23
DEFAULT_INTERVAL == TF_5MIN

\* on_text up to its await of analyze_once: the text is parsed and the
\* "calculating" reply sent; when that reply fails, the except clause
\* replies with the error and analyze_once is not called.
on_text(chat_id, text, progress_sent, maxUpdates) ==
    /\ HandlerFree(maxUpdates)
    /\ LET parsed == _extract_symbol_and_interval(text)
           symbol == parsed[1]
           interval == IF parsed[2] # <<>> THEN parsed[2] ELSE DEFAULT_INTERVAL
       IN  IF symbol = <<>>
           THEN /\ reply' = [kind |-> "usage", chat |-> chat_id]
                /\ UNCHANGED manual
           ELSE IF ~progress_sent
           THEN /\ reply' = [kind |-> "error", chat |-> chat_id, exc |-> "TelegramError"]
                /\ UNCHANGED manual
           ELSE /\ reply' = [kind |-> "progress", chat |-> chat_id]
                /\ manual' = [pc |-> "fetch", chat |-> chat_id, symbol |-> symbol,
                              interval |-> interval]
    /\ updates' = updates + 1
    /\ UNCHANGED <<envVars, pureVars, LAST_STATE, configVars, jobs, last, log, ticks>>

\* on_text with the result written to the dedup store, as autoscan_job does.
on_text_result_stores(resp) ==
    /\ manual.pc = "fetch"
    /\ LET res == analyze_once(resp)
       IN  /\ reply' =
                 IF ~res.ok THEN [kind |-> "error", chat |-> manual.chat, exc |-> res.exc]
                 ELSE IF res.val.signal = "WAIT"
                 THEN [kind |-> "wait", chat |-> manual.chat, symbol |-> manual.symbol,
                       interval |-> manual.interval]
                 ELSE [kind |-> "alert", chat |-> manual.chat, symbol |-> manual.symbol,
                       interval |-> manual.interval, signal |-> res.val.signal]
           /\ LAST_STATE' =
                 IF res.ok
                 THEN Put(LAST_STATE, <<manual.chat, manual.symbol, manual.interval>>,
                          res.val.signal)
                 ELSE LAST_STATE
    /\ manual' = Idle
    /\ UNCHANGED <<envVars, pureVars, configVars, jobs, last, log, ticks, updates>>

\* on_text from the return of analyze_once: the WAIT reply, the alert reply,
\* or the error reply of the except clause.
on_text_result(resp) ==
    /\ manual.pc = "fetch"
    /\ LET res == analyze_once(resp)
       IN  reply' =
               IF ~res.ok THEN [kind |-> "error", chat |-> manual.chat, exc |-> res.exc]
               ELSE IF res.val.signal = "WAIT"
               THEN [kind |-> "wait", chat |-> manual.chat, symbol |-> manual.symbol,
                     interval |-> manual.interval]
               ELSE [kind |-> "alert", chat |-> manual.chat, symbol |-> manual.symbol,
                     interval |-> manual.interval, signal |-> res.val.signal]
    /\ manual' = Idle
    /\ UNCHANGED <<envVars, pureVars, LAST_STATE, configVars, jobs, last, log, ticks, updates>>


----------------------------------------------------------------------------
(* The scanner, src/bot.py:325-356 and 370.                                *)

\* run_repeating is called with no job_kwargs (src/bot.py:370): the job
\* queue keeps its default of one running instance of a job, and a tick
\* that comes due while the previous run has not returned is skipped.
MaxInstances == 1

\* A run is started at every tick, whatever runs are in progress.
TickAllowed_overlap == TRUE

TickAllowed == Cardinality({j \in JobIds : Running(jobs[j])}) < MaxInstances

\* The alert is sent for every BUY or SELL, the comparison with prev lost.
ShouldDeliver_every(signal, prev) == signal \in {"BUY", "SELL"}

\* src/bot.py:346
ShouldDeliver(signal, prev) == signal \in {"BUY", "SELL"} /\ signal # prev

\* The write of line 347 left out (or moved behind the send).
StateOnDeliver_unwritten(state, key, signal) == state

\* The state read at line 343 written back in place of the signal.
StateOnDeliver_prev(state, key, signal) == Put(state, key, Get(state, key, "NONE"))

\* src/bot.py:347
StateOnDeliver(state, key, signal) == Put(state, key, signal)

\* The write of line 353 left out.
StateOnWait_unwritten(state, key) == state

\* src/bot.py:352-353
StateOnWait(state, key) == Put(state, key, "WAIT")

\* The entry of the key dropped when its evaluation fails.
StateOnError_reset(state, key) == [k \in DOMAIN state \ {key} |-> state[k]]

\* src/bot.py:355-356: the except clause logs and writes nothing.
StateOnError(state, key) == state

\* The except clause narrowed to the errors the module raises itself.
Catches_runtime_only(exc) == exc = "RuntimeError"

\* src/bot.py:355: except Exception catches every error of the try block.
Catches(exc) == TRUE

\* The first enabled item after position ci, 0 when there is none
\* (src/bot.py:328-330).
NextEnabled(items, ci) ==
    LET later == {k \in DOMAIN items : k > ci /\ items[k][2]}
    IN  IF later = {} THEN 0 ELSE CHOOSE k \in later : \A m \in later : k <= m

\* The run enters the chat of item k: src/bot.py:332-333.
EnterChat(job, k) ==
    LET chat_id == job.items[k][1]
        stored_tfs == Get(AUTO_TFS_BY_CHAT, chat_id, <<>>)
        stored_syms == Get(AUTO_SYMBOLS_BY_CHAT, chat_id, <<>>)
        tfs == IF stored_tfs # <<>> THEN stored_tfs ELSE AUTO_TFS
        syms_raw == IF stored_syms # <<>> THEN stored_syms ELSE DEFAULT_SYMBOLS
    IN  [job EXCEPT !.pc = "fetch", !.ci = k, !.tfs = tfs, !.syms = syms_raw,
                    !.si = 1, !.ti = 1,
                    !.read = Append(@, [chat |-> chat_id, syms |-> syms_raw, tfs |-> tfs])]

\* The run goes to its next await of analyze_once, or returns: the three
\* nested for loops of src/bot.py:328-338.
RECURSIVE Advance(_)
Advance(job) ==
    IF job.ci > 0 /\ job.si <= Len(job.syms) /\ job.ti < Len(job.tfs)
    THEN [job EXCEPT !.pc = "fetch", !.ti = @ + 1, !.sending = "NONE"]
    ELSE IF job.ci > 0 /\ job.si < Len(job.syms)
    THEN IF job.tfs = <<>>
         THEN Advance([job EXCEPT !.si = @ + 1, !.ti = 0])
         ELSE [job EXCEPT !.pc = "fetch", !.si = @ + 1, !.ti = 1, !.sending = "NONE"]
    ELSE LET k == NextEnabled(job.items, job.ci)
         IN  IF k = 0 THEN [job EXCEPT !.pc = "done", !.sending = "NONE"]
             ELSE LET entered == EnterChat([job EXCEPT !.sending = "NONE"], k)
                  IN  IF entered.syms = <<>> \/ entered.tfs = <<>>
                      THEN Advance([entered EXCEPT !.si = Len(entered.syms), !.ti = Len(entered.tfs)])
                      ELSE entered

\* The trigger of the job comes due.  With an instance free the job queue
\* starts a run of autoscan_job, which snapshots the items of AUTO_ENABLED
\* and goes to its first await; with every instance busy the tick is
\* skipped.  ticks counts the ticks that came due.
Tick(j, maxTicks) ==
    /\ ticks < maxTicks
    /\ ~Running(jobs[j])
    /\ \A i \in JobIds : i < j => Running(jobs[i])
    /\ ticks' = ticks + 1
    /\ jobs' = IF TickAllowed
               THEN [jobs EXCEPT ![j] =
                       Advance([NoJob EXCEPT !.tick = ticks + 1, !.items = AUTO_ENABLED])]
               ELSE jobs
    /\ UNCHANGED <<envVars, pureVars, LAST_STATE, configVars, manual, reply, last,
                   log, updates>>

\* The tick of a job queue told to run as many instances of the job as there
\* are slots (job_kwargs of run_repeating, which src/bot.py:370 does not
\* give): a run starts whenever a slot is free.
TickOverlapping(j, maxTicks) ==
    /\ ticks < maxTicks
    /\ ~Running(jobs[j])
    /\ \A i \in JobIds : i < j => Running(jobs[i])
    /\ ticks' = ticks + 1
    /\ jobs' = [jobs EXCEPT ![j] =
                   Advance([NoJob EXCEPT !.tick = ticks + 1, !.items = AUTO_ENABLED])]
    /\ UNCHANGED <<envVars, pureVars, LAST_STATE, configVars, manual, reply, last,
                   log, updates>>

\* The run after an evaluation of key: on to the next await, or out of
\* autoscan_job with the exception when the except clause does not catch it.
AfterEval(job, key, exc) ==
    LET noted == [job EXCEPT !.seen = IF job.pc = "fetch" THEN Append(@, key) ELSE @,
                             !.errors = IF exc # "" THEN @ + 1 ELSE @]
    IN  IF exc # "" /\ ~Catches(exc) THEN [noted EXCEPT !.pc = "raised"]
        ELSE Advance(noted)

\* analyze_once returns to the run, or raises: src/bot.py:340-356 up to the
\* await of send_message.  The evaluation is appended to the log when keep
\* holds.
FetchReturn(j, resp, keep) ==
    /\ jobs[j].pc = "fetch"
    /\ \E res \in {analyze_once(resp)},
          key \in {<<jobs[j].items[jobs[j].ci][1],
                     _normalize_symbol(jobs[j].syms[jobs[j].si]),
                     jobs[j].tfs[jobs[j].ti]>>} :
         LET job == jobs[j]
             prev == Get(LAST_STATE, key, "NONE")
             signal == IF res.ok THEN res.val.signal ELSE "ERROR"
             deliver == res.ok /\ ShouldDeliver(signal, prev)
             entry == [tick |-> job.tick, chat |-> key[1], symbol |-> key[2],
                       tf |-> key[3], prev |-> prev, out |-> signal,
                       sent |-> IF deliver THEN "pending" ELSE "none"]
         IN  /\ LAST_STATE' = IF deliver THEN StateOnDeliver(LAST_STATE, key, signal)
                              ELSE IF signal = "WAIT" THEN StateOnWait(LAST_STATE, key)
                              ELSE IF ~res.ok THEN StateOnError(LAST_STATE, key)
                              ELSE LAST_STATE
             /\ jobs' = [jobs EXCEPT ![j] =
                           IF deliver
                           THEN [job EXCEPT !.pc = "send", !.sending = signal,
                                            !.seen = Append(@, key)]
                           ELSE AfterEval(job, key, IF res.ok THEN "" ELSE res.exc)]
             /\ last' = entry
             /\ log' = IF keep THEN Append(log, entry) ELSE log
    /\ UNCHANGED <<envVars, pureVars, configVars, manual, reply, ticks, updates>>

\* send_message returns to the run, or raises: src/bot.py:349-356.
SendReturn(j, delivered) ==
    /\ jobs[j].pc = "send"
    /\ LET job == jobs[j]
           key == <<job.items[job.ci][1], _normalize_symbol(job.syms[job.si]),
                    job.tfs[job.ti]>>
           mine(e) == e.tick = job.tick /\ e.sent = "pending"
           result(e) == [e EXCEPT !.sent = IF delivered THEN "ok" ELSE "failed"]
       IN  /\ last' = IF mine(last) THEN result(last) ELSE last
           /\ log' = [i \in DOMAIN log |-> IF mine(log[i]) THEN result(log[i]) ELSE log[i]]
           /\ LAST_STATE' = IF delivered /\ job.sending = "WAIT"
                            THEN StateOnWait(LAST_STATE, key)
                            ELSE LAST_STATE
           /\ jobs' = [jobs EXCEPT ![j] =
                         AfterEval(job, key, IF delivered THEN "" ELSE "TelegramError")]
    /\ UNCHANGED <<envVars, pureVars, configVars, manual, reply, ticks, updates>>

----------------------------------------------------------------------------
(* Inputs of the commands.                                                 *)

AutoscanArgs == {<<<<"o", "n">>>>, <<<<"O", "F", "F">>>>, <<>>}
SettfArgs == {<<<<>>>>, <<<<>>, <<" ">>>>, <<TF_M5>>, <<TF_5MIN, TF_1MIN>>}
SetsymbolsArgs == {<<<<>>>>, <<EURUSD>>, <<XAUUSD, XAU_USD>>}
Texts == {<<>>, <<<<"/", "x">>>>, <<XAUUSD>>, <<XAU_USD, TF_m5>>, <<EURUSD, TF_1MIN>>}

----------------------------------------------------------------------------
(* Inputs of the pure functions.                                           *)

\* Price levels of the candles of the indicator checks.
Prices == {1, 2}

\* A candle of the indicator checks: low <= close <= high.
CandleSet ==
    {[t |-> 0, o |-> RInt(c), h |-> RInt(h), l |-> RInt(l), c |-> RInt(c)] :
        <<h, l, c>> \in {x \in Prices \X Prices \X Prices :
                            x[2] <= x[3] /\ x[3] <= x[1]}}

CandleSeqs == UNION {[1..n -> CandleSet] : n \in 0..MaxCandles}

Windows == 1..MaxWindow

\* Values of VI+ and VI-: the quarters from 0 to 2.
VIValues == {Rat(k, 4) : k \in 0..8}

Thresholds == {Fl(<<12, 100>>), <<0, 1>>, <<-1, 4>>, <<1, 2>>}

Multipliers == {<<0, 1>>, <<1, 1>>, <<3, 2>>, <<2, 1>>, <<3, 1>>}

\* Last prices of the plan checks; the largest is where one unit of price is
\* below the spacing of the floats.
PlanPrices == {<<1, 1>>, <<2, 1>>, <<2 ^ (FloatPrecision + 1), 1>>}

PlanAtrs == {<<0, 1>>, <<1, 2>>, <<1, 1>>, <<2, 1>>}

\* Responses of the fetch checks: up to MaxRows rows, their datetimes in any
\* order.
FetchRows == {Row(time, 2, 1, close) : time \in 1..MaxRows, close \in Prices}
FetchResponses == {JsonOk(values) : values \in UNION {[1..n -> FetchRows] : n \in 1..MaxRows}}

----------------------------------------------------------------------------
(* Applications of the pure functions to enumerated inputs, one application *)
(* in a behaviour.                                                         *)

NoCall == [fn |-> "none"]

CallDecideSignal(vi_p, vi_m) ==
    /\ call = NoCall
    /\ call' = [fn |-> "decide_signal", vi_p |-> vi_p, vi_m |-> vi_m]
    /\ ret' = decide_signal(vi_p, vi_m)
    /\ UNCHANGED <<envVars, botVars>>

CallBuildTradePlan(last_price, direction, atr_val) ==
    /\ call = NoCall
    /\ call' = [fn |-> "build_trade_plan", last_price |-> last_price,
                direction |-> direction, atr_val |-> atr_val]
    /\ ret' = build_trade_plan(last_price, direction, atr_val)
    /\ UNCHANGED <<envVars, botVars>>

CallAtr(candles, length) ==
    /\ call = NoCall
    /\ call' = [fn |-> "atr", candles |-> candles, length |-> length]
    /\ ret' = atr(candles, length)
    /\ UNCHANGED <<envVars, botVars>>

CallVortex(candles, length) ==
    /\ call = NoCall
    /\ call' = [fn |-> "vortex", candles |-> candles, length |-> length]
    /\ ret' = vortex(candles, length)
    /\ UNCHANGED <<envVars, botVars>>

CallFetch(resp) ==
    /\ call = NoCall
    /\ call' = [fn |-> "fetch_candles_twelve", resp |-> resp]
    /\ ret' = fetch_candles_twelve(resp)
    /\ UNCHANGED <<envVars, botVars>>

InitSignal ==
    /\ MIN_STRENGTH \in Thresholds
    /\ ATR_SL_MULT \in Multipliers
    /\ ATR_TP1_MULT \in Multipliers
    /\ ATR_TP2_MULT \in Multipliers
    /\ ATR_TP3_MULT \in Multipliers
    /\ (MIN_STRENGTH = Fl(<<12, 100>>) \/ (ATR_SL_MULT = <<3, 2>> /\ ATR_TP1_MULT = <<1, 1>>))
    /\ AUTO_TFS = _parse_csv_list(<<TF_1MIN, TF_5MIN>>)
    /\ DEFAULT_SYMBOLS = _parse_csv_list(<<XAUUSD>>)
    /\ call = NoCall
    /\ ret = NoCall
    /\ InitBot

NextSignal ==
    \/ \E vi_p \in VIValues, vi_m \in VIValues : CallDecideSignal(vi_p, vi_m)
    \/ \E p \in PlanPrices, d \in {"BUY", "SELL"}, a \in PlanAtrs :
           CallBuildTradePlan(p, d, a)

InitIndicator ==
    /\ DefaultEnv
    /\ call = NoCall
    /\ ret = NoCall
    /\ InitBot

NextIndicator ==
    \/ \E cs \in CandleSeqs, n \in Windows : CallAtr(cs, n)
    \/ \E cs \in CandleSeqs, n \in Windows : CallVortex(cs, n)

InitFetch == InitIndicator

NextFetch == \E resp \in FetchResponses : CallFetch(resp)

----------------------------------------------------------------------------
(* The bot: commands, manual requests and the scanner.                     *)

Init ==
    /\ DefaultEnv
    /\ call = NoCall
    /\ ret = NoCall
    /\ InitBot

Next ==
    \/ \E c \in Chats : start(c, MaxUpdates)
    \/ \E c \in Chats : help_cmd(c, MaxUpdates)
    \/ \E c \in Chats, a \in AutoscanArgs : autoscan(c, a, MaxUpdates)
    \/ \E c \in Chats, raw \in SettfArgs : settf(c, raw, MaxUpdates)
    \/ \E c \in Chats, raw \in SetsymbolsArgs : setsymbols(c, raw, MaxUpdates)
    \/ \E c \in Chats, text \in Texts, sent \in BOOLEAN : on_text(c, text, sent, MaxUpdates)
    \/ \E resp \in Responses : on_text_result(resp)
    \/ \E j \in JobIds : Tick(j, MaxTicks)
    \/ \E j \in JobIds, resp \in ScanResponses : FetchReturn(j, resp, FALSE)
    \/ \E j \in JobIds, delivered \in BOOLEAN : SendReturn(j, delivered)

vars == <<envVars, pureVars, botVars>>

\* One chat and one tracking key: AUTO_TFS="5min", DEFAULT_SYMBOLS="XAUUSD",
\* chat 1 turning the scanner on and off, and every evaluation logged.
InitKey == Init

NextKey ==
    \/ \E a \in AutoscanArgs : autoscan(1, a, MaxKeyUpdates)
    \/ \E j \in JobIds : Tick(j, MaxKeyTicks)
    \/ \E j \in JobIds, resp \in ScanResponses : FetchReturn(j, resp, TRUE)
    \/ \E j \in JobIds, delivered \in BOOLEAN : SendReturn(j, delivered)

\* SpecKey with overlapping runs: the hypothesis of the claim about the
\* atomicity of the read and the write of a key's state.
NextOverlap ==
    \/ \E a \in AutoscanArgs : autoscan(1, a, MaxKeyUpdates)
    \/ \E j \in JobIds : TickOverlapping(j, MaxOverlapTicks)
    \/ \E j \in JobIds, resp \in ScanResponses : FetchReturn(j, resp, TRUE)
    \/ \E j \in JobIds, delivered \in BOOLEAN : SendReturn(j, delivered)

\* One subscriber turning the scanner on, off and on again between cycles:
\* the first period has one evaluation of the key, the commands alternate
\* and come while no run is in flight, ticks come at any time.
ToggleArgs == {<<<<"o", "n">>>>, <<<<"o", "f", "f">>>>}
IsOn(chat_id) ==
    \E i \in DOMAIN AUTO_ENABLED : AUTO_ENABLED[i] = <<chat_id, TRUE>>
Toggles(a) ==
    /\ \A j \in JobIds : ~Running(jobs[j])
    /\ (a = <<<<"o", "n">>>>) = ~IsOn(1)
    /\ IsOn(1) => log # <<>>
TickInPeriod == updates >= 1 /\ (updates = 1 => log = <<>>)
NextToggle ==
    \/ \E a \in ToggleArgs : Toggles(a) /\ autoscan(1, a, MaxToggleUpdates)
    \/ \E j \in JobIds : TickInPeriod /\ Tick(j, MaxToggleTicks)
    \/ \E j \in JobIds, resp \in ScanResponses : FetchReturn(j, resp, TRUE)
    \/ \E j \in JobIds, delivered \in BOOLEAN : SendReturn(j, delivered)

Spec == Init /\ [][Next]_vars
SpecOverlap == InitKey /\ [][NextOverlap]_vars
SpecKey == InitKey /\ [][NextKey]_vars
SpecToggle == InitKey /\ [][NextToggle]_vars
SpecSignal == InitSignal /\ [][NextSignal]_vars
SpecIndicator == InitIndicator /\ [][NextIndicator]_vars
SpecFetch == InitFetch /\ [][NextFetch]_vars

----------------------------------------------------------------------------
(* Claims about the scanner, on the log of SpecKey.                        *)

EntryKey(e) == <<e.chat, e.symbol, e.tf>>
LogKeys == {EntryKey(log[i]) : i \in DOMAIN log}

\* The evaluations of a key, in the order they were made.
KeyLog(key) == SelectSeq(log, LAMBDA e : EntryKey(e) = key)

Succeeded(e) == e.out # "ERROR" /\ e.sent # "failed"
Triggered(e) == e.sent # "none"
IsAlert(signal) == signal \in {"BUY", "SELL"}

\* The state a key has before evaluation i of a history whose earlier
\* evaluations all succeeded: the signal of the evaluation before, NONE for
\* the first.
StoredBefore(h, i) == IF i = 1 THEN "NONE" ELSE h[i - 1].out

Scenario == <<"WAIT", "BUY", "BUY", "SELL", "BUY", "BUY">>
Signals(h) == [i \in DOMAIN h |-> h[i].out]
Delivered(h) == {i \in DOMAIN h : h[i].sent = "ok"}

\* C1: over the evaluations of one key, as long as all of them succeed, an
\* evaluation triggers a delivery if and only if its signal is BUY or SELL and
\* differs from the state stored before it (NONE when absent); the key is
\* evaluated once in a tick, so the delivery is a single one; and the signals
\* WAIT, BUY, BUY, SELL, BUY, BUY deliver exactly BUY at tick 2, SELL at tick 4
\* and BUY at tick 5.
C1_DedupRule ==
    \A key \in LogKeys :
        LET h == KeyLog(key)
        IN  /\ \A i \in DOMAIN h :
                 (\A k \in 1..i : Succeeded(h[k])) =>
                     /\ Triggered(h[i]) <=>
                            (IsAlert(h[i].out) /\ h[i].out # StoredBefore(h, i))
                     /\ h[i].prev = StoredBefore(h, i)
                     /\ \A k \in 1..(i - 1) : h[k].tick < h[i].tick
            /\ (/\ Signals(h) = Scenario
                /\ \A i \in DOMAIN h : Succeeded(h[i]) /\ h[i].sent # "pending")
               => /\ Delivered(h) = {2, 4, 5}
                  /\ <<h[2].out, h[4].out, h[5].out>> = <<"BUY", "SELL", "BUY">>

\* C1 witness: the six signals of the scenario were evaluated at ticks 1 to 6
\* and the three deliveries made.
C1_Witness ==
    /\ Signals(log) = Scenario
    /\ [i \in DOMAIN log |-> log[i].tick] = <<1, 2, 3, 4, 5, 6>>
    /\ Delivered(log) = {2, 4, 5}

\* C2: an evaluation that computes WAIT triggers no delivery and leaves WAIT
\* stored for its key, whatever was stored before; and the next BUY or SELL
\* computed for the key after a WAIT triggers a delivery, also when it equals
\* the signal delivered last.
C2_WaitStored ==
    \A key \in LogKeys :
        LET h == KeyLog(key)
        IN  /\ h[Len(h)].out = "WAIT" =>
                 /\ ~Triggered(h[Len(h)])
                 /\ Get(LAST_STATE, key, "NONE") = "WAIT"
            /\ \A i \in DOMAIN h : h[i].out = "WAIT" => ~Triggered(h[i])
            /\ \A i, k \in DOMAIN h :
                 (/\ i < k
                  /\ h[i].out = "WAIT"
                  /\ IsAlert(h[k].out)
                  /\ \A m \in (i + 1)..(k - 1) : h[m].out = "ERROR")
                 => Triggered(h[k])

\* C2 witness: a BUY is delivered, a WAIT follows with BUY stored and is kept
\* silent, and the BUY after it is delivered again; WAIT was also computed
\* with nothing stored and with WAIT stored.
C2_Witness ==
    /\ \E i \in DOMAIN log :
          /\ i + 2 \in DOMAIN log
          /\ log[i].out = "BUY" /\ log[i].sent = "ok"
          /\ log[i + 1].out = "WAIT" /\ log[i + 1].prev = "BUY"
          /\ log[i + 1].sent = "none"
          /\ log[i + 2].out = "BUY" /\ log[i + 2].prev = "WAIT"
          /\ log[i + 2].sent = "ok"
    /\ \E i \in DOMAIN log : log[i].out = "WAIT" /\ log[i].prev = "NONE"
    /\ \E i \in DOMAIN log : log[i].out = "WAIT" /\ log[i].prev = "WAIT"

\* C4: while a delivery is being attempted and after it failed, the signal of
\* the alert is the stored state of its key; the failure leaves the run in
\* autoscan_job; and the next evaluation of the key, when it computes the same
\* signal, triggers no delivery.
C4_StateBeforeDelivery ==
    /\ \A j \in JobIds : jobs[j].pc # "raised"
    /\ \A key \in LogKeys :
          LET h == KeyLog(key)
          IN  /\ h[Len(h)].sent \in {"pending", "failed"} =>
                    Get(LAST_STATE, key, "NONE") = h[Len(h)].out
              /\ \A i \in DOMAIN h :
                    (/\ i + 1 \in DOMAIN h
                     /\ h[i].sent = "failed"
                     /\ h[i + 1].out = h[i].out)
                    => ~Triggered(h[i + 1])

\* C4 witness: the delivery of a SELL failed and the SELL computed at the
\* next evaluation of the key was not sent.
C4_Witness ==
    \E i \in DOMAIN log :
        /\ i + 1 \in DOMAIN log
        /\ log[i].out = "SELL" /\ log[i].sent = "failed"
        /\ log[i + 1].out = "SELL" /\ log[i + 1].sent = "none"
        /\ Get(LAST_STATE, EntryKey(log[i]), "NONE") = "SELL"

----------------------------------------------------------------------------
(* Claims about the cycles of the scanner and the manual request, on Spec. *)

\* The keys of the chat a run entered with the lists it read: the instruments
\* in order, and for each the timeframes in order.
KeysOf(r) ==
    LET n == Len(r.tfs)
    IN  [k \in 1..(Len(r.syms) * n) |->
            <<r.chat, _normalize_symbol(r.syms[((k - 1) \div n) + 1]),
              r.tfs[((k - 1) % n) + 1]>>]

RECURSIVE CrossProduct(_)
CrossProduct(read) ==
    IF read = <<>> THEN <<>>
    ELSE CrossProduct(SubSeq(read, 1, Len(read) - 1)) \o KeysOf(read[Len(read)])

\* The subscribers of a snapshot of AUTO_ENABLED that are enabled, in order.
EnabledChats(items) ==
    LET on == SelectSeq(items, LAMBDA it : it[2])
    IN  [i \in DOMAIN on |-> on[i][1]]

\* C3: no exception leaves autoscan_job, and a run that has returned has
\* entered every enabled subscriber of its snapshot and evaluated every key
\* of subscribers x instruments x timeframes, whatever evaluations or
\* deliveries failed on the way; and an evaluation that succeeds triggers its
\* delivery exactly when its signal is BUY or SELL and differs from the
\* stored state, also after failures in the same cycle.
C3_CycleIsolation ==
    /\ \A j \in JobIds :
          /\ jobs[j].pc # "raised"
          /\ jobs[j].pc = "done" =>
                /\ [i \in DOMAIN jobs[j].read |-> jobs[j].read[i].chat]
                      = EnabledChats(jobs[j].items)
                /\ jobs[j].seen = CrossProduct(jobs[j].read)
    /\ (last # NoEval /\ last.out # "ERROR") =>
          (Triggered(last) <=> (IsAlert(last.out) /\ last.out # last.prev))

\* C3 witness: a run returned after evaluating at least two keys, with an
\* error caught on the way and the alert of its last key delivered.
C3_Witness ==
    \E j \in JobIds :
        /\ jobs[j].pc = "done"
        /\ jobs[j].errors >= 1
        /\ Len(jobs[j].seen) >= 2
        /\ last # NoEval
        /\ last.tick = jobs[j].tick
        /\ last.sent = "ok"

ManualStep ==
    \/ \E c \in Chats, text \in Texts, sent \in BOOLEAN : on_text(c, text, sent, MaxUpdates)
    \/ \E resp \in Responses : on_text_result(resp)

\* C5: a step of the manual request (on_text up to its await of analyze_once
\* and from its return, whatever the reply) leaves LAST_STATE, AUTO_ENABLED,
\* AUTO_TFS_BY_CHAT and AUTO_SYMBOLS_BY_CHAT as they are, and leaves the runs
\* of the scanner where they are.
C5_ManualFrame ==
    [][ManualStep => UNCHANGED <<LAST_STATE, configVars, jobs>>]_vars

\* C5 witness: the manual request answered with an alert for an instrument
\* and timeframe whose key holds another signal for the same chat.
C5_Witness ==
    /\ reply.kind = "alert"
    /\ LET key == <<reply.chat, reply.symbol, reply.interval>>
       IN  /\ key \in DOMAIN LAST_STATE
           /\ IsAlert(LAST_STATE[key])
           /\ LAST_STATE[key] # reply.signal

\* The key a run is evaluating or delivering for.
KeyInFlight(job) ==
    <<job.items[job.ci][1], _normalize_symbol(job.syms[job.si]), job.tfs[job.ti]>>

\* C6: two runs of autoscan_job that are in progress are never at the same
\* key, so no two evaluations of a key are in flight together: a tick that
\* comes due while a run is in progress starts no run.
C6_NoOverlap ==
    \A i, j \in JobIds :
        (i # j /\ Running(jobs[i]) /\ Running(jobs[j])) =>
            KeyInFlight(jobs[i]) # KeyInFlight(jobs[j])

\* C6 witness: the second tick came due while the run of the first was
\* waiting for the candles of a key, and was skipped.
C6_Witness ==
    /\ ticks = 2
    /\ \E j \in JobIds : jobs[j].pc = "fetch" /\ jobs[j].tick = 1
    /\ \A j \in JobIds : Running(jobs[j]) => jobs[j].tick = 1

----------------------------------------------------------------------------
(* Claims about the pure functions.                                        *)

\* C7: for every pair (VI+, VI-) and every threshold, decide_signal returns
\* strength = |VI+ - VI-|, returns WAIT exactly when strength < threshold,
\* and otherwise BUY exactly when VI+ > VI- and SELL exactly when VI+ <= VI-.
C7_DecideSignal ==
    call.fn = "decide_signal" =>
        LET strength == Fl(RAbs(RSub(call.vi_p, call.vi_m)))
            weak == RLt(strength, MIN_STRENGTH)
        IN  /\ ret[2] = strength
            /\ ret[1] \in {"WAIT", "BUY", "SELL"}
            /\ (ret[1] = "WAIT") <=> weak
            /\ ~weak => /\ (ret[1] = "BUY") <=> RLt(call.vi_m, call.vi_p)
                        /\ (ret[1] = "SELL") <=> RLe(call.vi_p, call.vi_m)

\* C7 witness: a strong pair with VI+ above VI- was classified BUY, under a
\* positive threshold.
C7_Witness ==
    /\ call.fn = "decide_signal"
    /\ RLt(<<0, 1>>, MIN_STRENGTH)
    /\ RLt(call.vi_m, call.vi_p)
    /\ ret[1] = "BUY"

\* C8 as stated: whenever VI+ equals VI-, decide_signal answers SELL.
C8_TieIsSell ==
    (call.fn = "decide_signal" /\ call.vi_p = call.vi_m) => ret[1] = "SELL"

\* C8 amended: on a tie the strength is 0, so decide_signal answers WAIT when
\* the threshold is positive and SELL when it is not; it never answers BUY.
C8_TieBelowThreshold ==
    (call.fn = "decide_signal" /\ call.vi_p = call.vi_m) =>
        /\ ret[2] = <<0, 1>>
        /\ RLt(<<0, 1>>, MIN_STRENGTH) => ret[1] = "WAIT"
        /\ ~RLt(<<0, 1>>, MIN_STRENGTH) => ret[1] = "SELL"

\* C8 witness: a tie classified SELL, under a threshold that is not positive.
C8_Witness ==
    /\ call.fn = "decide_signal"
    /\ call.vi_p = call.vi_m
    /\ ~RLt(<<0, 1>>, MIN_STRENGTH)
    /\ ret[1] = "SELL"

\* The precondition of C9: ATR > 0, multipliers positive, tp1 < tp2 < tp3.
PlanPrecondition ==
    /\ call.fn = "build_trade_plan"
    /\ RLt(<<0, 1>>, call.atr_val)
    /\ RLt(<<0, 1>>, ATR_SL_MULT)
    /\ RLt(<<0, 1>>, ATR_TP1_MULT)
    /\ RLt(ATR_TP1_MULT, ATR_TP2_MULT)
    /\ RLt(ATR_TP2_MULT, ATR_TP3_MULT)

\* C9 as stated: under the precondition the plan has entry = last price and
\* its levels strictly ordered, stop < entry < tp1 < tp2 < tp3 for BUY and
\* the mirror for SELL.
C9_StrictOrder ==
    PlanPrecondition =>
        /\ ret.entry = call.last_price
        /\ call.direction = "BUY" =>
               /\ RLt(ret.sl, ret.entry) /\ RLt(ret.entry, ret.tp1)
               /\ RLt(ret.tp1, ret.tp2) /\ RLt(ret.tp2, ret.tp3)
        /\ call.direction = "SELL" =>
               /\ RLt(ret.entry, ret.sl) /\ RLt(ret.tp1, ret.entry)
               /\ RLt(ret.tp2, ret.tp1) /\ RLt(ret.tp3, ret.tp2)

\* The four levels of the plan were computed without rounding.
PlanExact ==
    LET sgn == IF call.direction = "BUY" THEN <<1, 1>> ELSE <<-1, 1>>
        level(mult) == RAdd(call.last_price, RMul(sgn, RMul(call.atr_val, mult)))
    IN  /\ ret.sl = RSub(call.last_price, RMul(sgn, RMul(call.atr_val, ATR_SL_MULT)))
        /\ ret.tp1 = level(ATR_TP1_MULT)
        /\ ret.tp2 = level(ATR_TP2_MULT)
        /\ ret.tp3 = level(ATR_TP3_MULT)

\* C9 amended: under the precondition the plan has entry = last price and
\* its levels ordered, stop <= entry <= tp1 <= tp2 <= tp3 for BUY and the
\* mirror for SELL; the order is strict when no level was rounded.
C9_WeakOrder ==
    PlanPrecondition =>
        /\ ret.entry = call.last_price
        /\ call.direction = "BUY" =>
               /\ RLe(ret.sl, ret.entry) /\ RLe(ret.entry, ret.tp1)
               /\ RLe(ret.tp1, ret.tp2) /\ RLe(ret.tp2, ret.tp3)
        /\ call.direction = "SELL" =>
               /\ RLe(ret.entry, ret.sl) /\ RLe(ret.tp1, ret.entry)
               /\ RLe(ret.tp2, ret.tp1) /\ RLe(ret.tp3, ret.tp2)
        /\ PlanExact => C9_StrictOrder

\* C9 witness: a SELL plan under the precondition whose levels are exact.
C9_Witness ==
    /\ PlanPrecondition
    /\ call.direction = "SELL"
    /\ PlanExact
    /\ RLt(ret.tp3, ret.tp2)

\* The true range of step i (candles i-1 and i, 1-based) of a sequence.
StepTR(cs, i) ==
    LET hl == RAbs(RSub(cs[i].h, cs[i].l))
        hc == RAbs(RSub(cs[i].h, cs[i - 1].c))
        lc == RAbs(RSub(cs[i].l, cs[i - 1].c))
    IN  RMax(hl, RMax(hc, lc))

\* The values atr and vortex owe for a sequence of L >= N+1 candles: over
\* the steps L-N+1 .. L, the last N ones.
ExpectedAtr(cs, N) ==
    LET L == Len(cs)
    IN  FDiv(FSum([k \in 1..N |-> StepTR(cs, L - N + k)]), RInt(N))

ExpectedVortex(cs, N) ==
    LET L == Len(cs)
        tr == FSum([k \in 1..N |-> StepTR(cs, L - N + k)])
        vp == FSum([k \in 1..N |-> RAbs(RSub(cs[L - N + k].h, cs[L - N + k - 1].l))])
        vm == FSum([k \in 1..N |-> RAbs(RSub(cs[L - N + k].l, cs[L - N + k - 1].h))])
        den == IF tr = <<0, 1>> THEN SumTrEpsilon ELSE tr
    IN  <<FDiv(vp, den), FDiv(vm, den)>>

\* C10: for a sequence of L candles and a window N >= 1, atr and vortex raise
\* their insufficient-candles error when L < N+1 (nothing else, and no
\* value), and for L >= N+1 return the value over exactly the last N steps.
C10_WindowGuard ==
    call.fn \in {"atr", "vortex"} =>
        LET L == Len(call.candles)
            N == call.length
        IN  IF L < N + 1
            THEN ret = Raise(IF call.fn = "atr" THEN "Poucos candles para ATR."
                             ELSE "Poucos candles para Vortex.")
            ELSE /\ ret.ok
                 /\ ret.val = IF call.fn = "atr" THEN ExpectedAtr(call.candles, N)
                              ELSE ExpectedVortex(call.candles, N)

\* C10 witness: atr returned a value for a sequence with more steps than the
\* window, the window's steps differing from the dropped one.
C10_Witness ==
    /\ call.fn = "atr"
    /\ Len(call.candles) > call.length + 1
    /\ ret.ok
    /\ ret.val # ExpectedAtr(call.candles, Len(call.candles) - 1)

----------------------------------------------------------------------------
(* Claims about the candle source.                                         *)

Times(seq) == [i \in DOMAIN seq |-> IF "t" \in DOMAIN seq[i] THEN seq[i].t ELSE seq[i].datetime]
Reversed(seq) == [i \in DOMAIN seq |-> seq[Len(seq) + 1 - i]]
OldestFirst(times) == \A i \in 1..(Len(times) - 1) : times[i] < times[i + 1]
NewestFirst(times) == \A i \in 1..(Len(times) - 1) : times[i] > times[i + 1]

\* C11 as stated: the candles of a response whose rows are oldest-first are
\* in the order of the rows, the candles of a response whose rows are
\* newest-first are in the reverse order of the rows, and in both cases the
\* candles are oldest-first.
C11_OrderNormalized ==
    (call.fn = "fetch_candles_twelve" /\ ret.ok) =>
        LET rows == Times(call.resp.values)
            candles == Times(ret.val)
        IN  /\ OldestFirst(rows) => candles = rows
            /\ NewestFirst(rows) => candles = Reversed(rows)
            /\ (OldestFirst(rows) \/ NewestFirst(rows)) => OldestFirst(candles)

\* What fetch_candles_twelve does: the candles are the rows in reverse order,
\* whatever the order of the rows.
C11_AlwaysReversed ==
    (call.fn = "fetch_candles_twelve" /\ ret.ok) =>
        Times(ret.val) = Reversed(Times(call.resp.values))

\* C11 witness: a response of three rows, oldest first, came back newest
\* first.
C11_Witness ==
    /\ call.fn = "fetch_candles_twelve"
    /\ ret.ok
    /\ Times(call.resp.values) = <<1, 2, 3>>
    /\ Times(ret.val) = <<3, 2, 1>>

----------------------------------------------------------------------------
(* Claims about the dedup store, on Spec.                                  *)

\* C13: every value stored in LAST_STATE is WAIT, BUY or SELL; NONE is never
\* stored, a key with nothing stored has no entry.
C13_StoredValues ==
    \A key \in DOMAIN LAST_STATE : LAST_STATE[key] \in {"WAIT", "BUY", "SELL"}

\* C13 witness: one key holds an alert, and the key evaluated last, read as
\* NONE, failed and has no entry.
C13_Witness ==
    /\ \E key \in DOMAIN LAST_STATE : IsAlert(LAST_STATE[key])
    /\ last # NoEval
    /\ last.out = "ERROR"
    /\ last.prev = "NONE"
    /\ EntryKey(last) \notin DOMAIN LAST_STATE

\* C14 as stated: a run evaluates no key twice, and a run that has returned
\* has evaluated each key of its enabled subscribers once.
C14_OncePerKey ==
    \A j \in JobIds :
        LET seen == jobs[j].seen
        IN  \A a, b \in DOMAIN seen : a # b => seen[a] # seen[b]

\* C14 witness: a run returned after evaluating one key twice, for the two
\* spellings of one instrument in the list of its subscriber.
C14_Witness ==
    \E j \in JobIds :
        /\ jobs[j].pc = "done"
        /\ Len(jobs[j].seen) = 2
        /\ jobs[j].seen[1] = jobs[j].seen[2]
        /\ jobs[j].read[1].syms = <<XAUUSD, XAU_USD>>

----------------------------------------------------------------------------
(* Claims about configuration commands and running cycles, on Spec.        *)

\* The lists a run reads for a subscriber: src/bot.py:332-333.
EffectiveTfs(chat_id) ==
    IF Get(AUTO_TFS_BY_CHAT, chat_id, <<>>) # <<>>
    THEN AUTO_TFS_BY_CHAT[chat_id] ELSE AUTO_TFS
EffectiveSyms(chat_id) ==
    IF Get(AUTO_SYMBOLS_BY_CHAT, chat_id, <<>>) # <<>>
    THEN AUTO_SYMBOLS_BY_CHAT[chat_id] ELSE DEFAULT_SYMBOLS

ConfigStep == configVars' # configVars

\* C15: a step that changes the configuration leaves every run where it is,
\* with the subscribers and the lists it read; a run reads the lists of a
\* subscriber as they are configured when it enters the subscriber; no run
\* ends with an exception; and a run that has returned has entered the
\* enabled subscribers of its snapshot and evaluated every combination of the
\* lists it read, in order, none skipped and none repeated.
C15_ConfigMidCycle ==
    /\ [][ConfigStep => UNCHANGED <<jobs, LAST_STATE>>]_vars
    /\ [][\A j \in JobIds :
            (jobs'[j].read # jobs[j].read /\ jobs'[j].read # <<>>) =>
                LET r == jobs'[j].read[Len(jobs'[j].read)]
                IN  /\ r.tfs = EffectiveTfs(r.chat)
                    /\ r.syms = EffectiveSyms(r.chat)
                    /\ jobs'[j].tfs = r.tfs
                    /\ jobs'[j].syms = r.syms]_vars
    /\ [](\A j \in JobIds :
            /\ jobs[j].pc # "raised"
            /\ Running(jobs[j]) =>
                  /\ jobs[j].tfs = jobs[j].read[Len(jobs[j].read)].tfs
                  /\ jobs[j].syms = jobs[j].read[Len(jobs[j].read)].syms
            /\ jobs[j].pc = "done" =>
                  /\ [i \in DOMAIN jobs[j].read |-> jobs[j].read[i].chat]
                        = EnabledChats(jobs[j].items)
                  /\ jobs[j].seen = CrossProduct(jobs[j].read))

\* C15 witness: a run waits for the candles of a subscriber whose timeframes
\* were set, since the run read them, to a list it did not read.
C15_Witness ==
    \E j \in JobIds :
        /\ jobs[j].pc = "fetch"
        /\ jobs[j].tfs = <<TF_5MIN>>
        /\ EffectiveTfs(jobs[j].items[jobs[j].ci][1]) = <<TF_5MIN, TF_1MIN>>

\* The keys of the lists a run read for the subscriber it is at.
KeysAtChat(job) ==
    LET keys == KeysOf(job.read[Len(job.read)])
    IN  {keys[i] : i \in DOMAIN keys}

\* C16: an entry of LAST_STATE is never deleted, and changes only by the
\* evaluation of its key; a run evaluates, and delivers for, only keys of the
\* lists it read, and it reads lists as they are configured then: a
\* combination taken off the configuration is evaluated by no run that
\* starts afterwards, and its entry stays as it is.
C16_RemovedCombinations ==
    /\ [][\A key \in DOMAIN LAST_STATE :
            /\ key \in DOMAIN LAST_STATE'
            /\ LAST_STATE'[key] # LAST_STATE[key] =>
                  \E j \in JobIds : /\ Running(jobs[j])
                                     /\ KeyInFlight(jobs[j]) = key
                                     /\ jobs'[j] # jobs[j]]_vars
    /\ [][\A j \in JobIds :
            (ticks' = ticks + 1 /\ Running(jobs'[j]) /\ jobs'[j].tick = ticks') =>
                /\ jobs'[j].tfs = EffectiveTfs(jobs'[j].items[jobs'[j].ci][1])
                /\ jobs'[j].syms = EffectiveSyms(jobs'[j].items[jobs'[j].ci][1])]_vars
    /\ [](\A j \in JobIds :
            Running(jobs[j]) =>
                /\ KeyInFlight(jobs[j]) \in KeysAtChat(jobs[j])
                /\ jobs[j].read[Len(jobs[j].read)].tfs = jobs[j].tfs
                /\ jobs[j].read[Len(jobs[j].read)].syms = jobs[j].syms)

\* C16 witness: the instruments of a subscriber were changed after its first
\* cycle stored an alert; the second cycle returned having evaluated the new
\* instrument only, and the entry of the removed instrument is still there.
C16_Witness ==
    \E j \in JobIds :
        /\ jobs[j].pc = "done"
        /\ jobs[j].tick = 2
        /\ jobs[j].seen = <<(<<1, _normalize_symbol(EURUSD), TF_5MIN>>)>>
        /\ <<1, _normalize_symbol(XAUUSD), TF_5MIN>> \in DOMAIN LAST_STATE
        /\ IsAlert(LAST_STATE[<<1, _normalize_symbol(XAUUSD), TF_5MIN>>])
        /\ EffectiveSyms(1) = <<EURUSD>>

----------------------------------------------------------------------------
(* Claims about the timeframe tokens, on Spec.                             *)

\* The tokens of the candle source: the values of m_map.
NativeTfs == {pr[2] : pr \in m_map}

\* C17 as stated: the timeframe given to the candle source, by the manual
\* request and by a run of the scanner, is a token of the source.
C17_NativeTokens ==
    /\ manual.pc = "fetch" => manual.interval \in NativeTfs
    /\ \A j \in JobIds :
          jobs[j].pc = "fetch" => jobs[j].tfs[jobs[j].ti] \in NativeTfs

\* What holds of the manual request: its timeframe is a token of the source,
\* for the shorthand and the native tokens of the texts.
C17_ManualTokens == manual.pc = "fetch" => manual.interval \in NativeTfs

\* C17 witness: a run asks the candle source for the timeframe M5, which
\* the subscriber set with settf.
C17_Witness ==
    \E j \in JobIds :
        /\ jobs[j].pc = "fetch"
        /\ jobs[j].tfs[jobs[j].ti] = TF_M5
        /\ Get(AUTO_TFS_BY_CHAT, jobs[j].items[jobs[j].ci][1], <<>>) = <<TF_M5>>

----------------------------------------------------------------------------
(* Claims about failed evaluations and about disabling, on the log of      *)
(* SpecKey.                                                                *)

Failure == <<"BUY", "ERROR", "BUY">>

\* C18: the step in which an evaluation fails changes no entry of LAST_STATE
\* and starts no delivery; an alert computed again after failures only is not
\* sent again; and the signals BUY, failure, BUY of a key trigger one
\* delivery.
C18_FailureFrame ==
    /\ [][(Len(log') = Len(log) + 1 /\ log'[Len(log')].out = "ERROR") =>
             /\ LAST_STATE' = LAST_STATE
             /\ log'[Len(log')].sent = "none"
             /\ \A j \in JobIds : jobs'[j].pc # "send"]_vars
    /\ [](\A key \in LogKeys :
             LET h == KeyLog(key)
             IN  /\ \A i, k \in DOMAIN h :
                       (/\ i < k
                        /\ IsAlert(h[i].out)
                        /\ h[k].out = h[i].out
                        /\ \A m \in (i + 1)..(k - 1) : h[m].out = "ERROR")
                       => ~Triggered(h[k])
                 /\ Signals(h) = Failure =>
                       {i \in DOMAIN h : Triggered(h[i])} = {1})

\* C18 witness: BUY was delivered, the next evaluation failed with BUY still
\* stored, and the BUY computed after it was not sent.
C18_Witness ==
    /\ Signals(log) = Failure
    /\ log[1].sent = "ok"
    /\ log[2].prev = "BUY"
    /\ log[3].prev = "BUY" /\ log[3].sent = "none"
    /\ Get(LAST_STATE, EntryKey(log[1]), "NONE") = "BUY"

----------------------------------------------------------------------------
(* Claims about disabling a subscriber, on Spec.                           *)

\* The enabled flag of a subscriber, FALSE when it has none.
Enabled(chat_id) ==
    \E i \in DOMAIN AUTO_ENABLED : AUTO_ENABLED[i] = <<chat_id, TRUE>>

\* C19 as stated: a run that is sending an alert sends it to a subscriber
\* whose enabled flag is true.
C19_NoDeliveryWhenOff ==
    \A j \in JobIds :
        jobs[j].pc = "send" => Enabled(jobs[j].items[jobs[j].ci][1])

\* C19 witness: the run of tick 1 sends an alert to subscriber 1 after the
\* command autoscan off of subscriber 1 was answered.
C19_Witness ==
    /\ reply = [kind |-> "autoscan", chat |-> 1, arg |-> <<"o", "f", "f">>]
    /\ ~Enabled(1)
    /\ \E j \in JobIds : /\ jobs[j].pc = "send"
                          /\ jobs[j].tick = 1
                          /\ jobs[j].items[jobs[j].ci][1] = 1
                          /\ IsAlert(jobs[j].sending)

----------------------------------------------------------------------------
(* Claims about overlapping runs, on the log of SpecOverlap.               *)

\* The state the evaluations before i left for their key: the signal of the
\* last of them that returned one, NONE when there is none.
RECURSIVE LeftBefore(_, _)
LeftBefore(h, i) ==
    IF i = 1 THEN "NONE"
    ELSE IF h[i - 1].out # "ERROR" THEN h[i - 1].out
    ELSE LeftBefore(h, i - 1)

\* C12: with runs overlapping, every evaluation reads the state that the
\* evaluation completed just before it left for the key, whichever run made
\* it (no other read or write comes between its read and its write); so of
\* two evaluations that compute the same BUY or SELL with no other signal
\* computed for the key between them, the second triggers no delivery.
C12_AtomicUpdate ==
    \A key \in LogKeys :
        LET h == KeyLog(key)
        IN  /\ \A i \in DOMAIN h : h[i].out # "ERROR" =>
                  /\ h[i].prev = LeftBefore(h, i)
                  /\ Triggered(h[i]) <=> (IsAlert(h[i].out) /\ h[i].out # h[i].prev)
            /\ \A i, k \in DOMAIN h :
                  (/\ i < k
                   /\ IsAlert(h[i].out)
                   /\ h[k].out = h[i].out
                   /\ \A m \in (i + 1)..(k - 1) : h[m].out \in {"ERROR", h[i].out})
                  => ~Triggered(h[k])
            /\ Get(LAST_STATE, key, "NONE") = LeftBefore(h, Len(h) + 1)

\* C12 witness: the run of tick 2 overtook the run of tick 1; both computed
\* BUY for the key, the first to return found nothing stored and sent the
\* alert, the other found BUY stored and sent nothing.
C12_Witness ==
    /\ Len(log) = 2
    /\ log[1].tick = 2 /\ log[1].out = "BUY" /\ log[1].prev = "NONE"
    /\ log[1].sent = "pending"
    /\ log[2].tick = 1 /\ log[2].out = "BUY" /\ log[2].prev = "BUY"
    /\ log[2].sent = "none"
    /\ EntryKey(log[1]) = EntryKey(log[2])

\* ---------------------------------------------------------------------
\* Claims about turning the scanner off and on again, on SpecToggle.
\* ---------------------------------------------------------------------

\* C20: turning a subscriber's scanning off and on again leaves every
\* LAST_STATE entry as the last completed evaluation of its key wrote it,
\* whether the scanner is on or off; the evaluation of the first tick after
\* the scanner is on again (the second of the key) reads that state, triggers
\* no delivery when it computes the stored BUY or SELL, and triggers one
\* when it computes a BUY or SELL that differs from it.
C20_ToggleKeepsState ==
    /\ DOMAIN LAST_STATE \subseteq LogKeys
    /\ \A key \in LogKeys :
          LET h == KeyLog(key)
          IN  /\ Get(LAST_STATE, key, "NONE") = LeftBefore(h, Len(h) + 1)
              /\ (Len(h) >= 2 /\ h[2].out # "ERROR") =>
                    /\ h[2].prev = LeftBefore(h, 2)
                    /\ (IsAlert(h[2].out) /\ h[2].out = h[2].prev) => h[2].sent = "none"
                    /\ (IsAlert(h[2].out) /\ h[2].out # h[2].prev)
                           => h[2].sent \in {"pending", "ok", "failed"}

\* C20 witness: BUY was delivered in the first period, the scanner was turned
\* off and on again, and the first tick after that computed BUY again and
\* sent nothing.
C20_Witness ==
    /\ updates = 3
    /\ IsOn(1)
    /\ Len(log) = 2
    /\ log[1].out = "BUY" /\ log[1].sent = "ok"
    /\ log[2].out = "BUY" /\ log[2].prev = "BUY" /\ log[2].sent = "none"
    /\ log[2].tick > log[1].tick
    /\ EntryKey(log[1]) = EntryKey(log[2])

====
